---------------------------- MODULE Spec2Model ----------------------------
(***************************************************************************)
(* Model of src/bot.py: a habit-tracking Telegram bot.  The state is the   *)
(* SQLite store (users, tasks, completions, leaderboard, timezones), the   *)
(* in-memory job queue of the running process, the Done callbacks that are *)
(* running with their positions in mark_done_cb, the /newtask conversation *)
(* of each user, the wall clock, and the outcome of the handler or job     *)
(* that ran last.                                                          *)
(*                                                                         *)
(* Time is counted in minutes of UTC from a Monday 00:00 UTC; a calendar   *)
(* date is a day number, day 0 being that Monday.                          *)
(***************************************************************************)
EXTENDS Integers, Sequences, FiniteSets, Bags, TLC

VARIABLES users, tasks, nextTaskId, completions, leaderboard, timezones,
          jobs, buttons, inflight, conv, up, now, last

vars == <<users, tasks, nextTaskId, completions, leaderboard, timezones,
          jobs, buttons, inflight, conv, up, now, last>>

store == <<users, tasks, nextTaskId, completions, leaderboard, timezones>>

(***************************************************************************)
(* Bounds of the model.                                                    *)
(***************************************************************************)
\* tasks.id is AUTOINCREMENT: at most MaxTasks tasks are ever created
MaxTasks == 1
\* completions.id is AUTOINCREMENT: at most MaxCompletions rows are inserted
MaxCompletions == 2
\* the clock of Spec stops at 00:00 UTC of day MaxDay
MaxDay == 7
\* the clock of SpecWeeks stops at 00:00 UTC of day MaxDayWeeks
MaxDayWeeks == 13
\* at most MaxCallbacks Done callbacks run at a time
MaxCallbacks == 2
\* at most MaxKeyboards messages with a days keyboard stand in a chat
MaxKeyboards == 2

\* Telegram user ids that talk to the bot
UserIds == {1}
\* what the task-creation conversation leaves in user_data: the name, the
\* time as strftime("%H:%M") wrote it, the selected days
TaskInputs ==
    { <<"Nap", <<23, 30>>, {6}>>,
      <<"Read", <<0, 5>>, {7}>> }

\* the texts a user sends as a task name; a text is a sequence of characters
NameTexts == { <<"N", "a", "p", " ">> }
\* texts sent as a time that name a time of day
ValidTimeTexts ==
    { <<"2", "3", ":", "3", "0">>,
      <<" ", "0", ":", "5">> }
\* texts sent as a time that name none: an hour or a minute out of range, a
\* negative hour, one field, three fields, a field that is no number, empty
\* fields
MalformedTimeTexts ==
    { <<"2", "4", ":", "0", "0">>,
      <<"1", "2", ":", "6", "0">>,
      <<"-", "1", ":", "3", "0">>,
      <<"9">>,
      <<"1", ":", "2", ":", "3">>,
      <<"a", ":", "1">>,
      <<":">> }
\* the day buttons of the days keyboard a user presses
DayButtons == {6, 7}

(***************************************************************************)
(* Dates and time zones.                                                   *)
(***************************************************************************)
MinutesPerDay == 24 * 60

\* date.isoweekday(): 1 = Monday .. 7 = Sunday
isoweekday(d) == (d % 7) + 1

\* iso_week_monday taking isoweekday() days off the date
iso_week_monday_sunday(d) == d - isoweekday(d)

iso_week_monday(d) == d - (isoweekday(d) - 1)

\* ZoneInfo(tz_name).utcoffset() in minutes (standard time) of the zones
\* the bot offers
utcoffset(tz) ==
    CASE tz = "Europe/Prague" -> 60
      [] tz = "Europe/Moscow" -> 180
      [] tz = "Asia/Baku"     -> 240

TZ == "Europe/Prague"

TIMEZONE_OPTIONS == {"Europe/Prague", "Asia/Baku", "Europe/Moscow"}

\* the zone a user picks in this model
TzChoices == {"Asia/Baku"}

get_user_tz(user_id) ==
    IF user_id \in DOMAIN timezones THEN timezones[user_id] ELSE "Europe/Prague"

\* datetime.now(tz).date()
date_in(tz, t) == (t + utcoffset(tz)) \div MinutesPerDay

today_for_user(user_id) == date_in(get_user_tz(user_id), now)

(***************************************************************************)
(* Store helpers.                                                          *)
(***************************************************************************)
Range(f) == {f[i] : i \in DOMAIN f}

\* the row "SELECT id, points FROM leaderboard WHERE user_id=? AND
\* week_start=?" fetches first: the matching row of least id, 0 if none
leaderboard_row(lb, user_id, ws) ==
    LET hits == {i \in DOMAIN lb : lb[i].user_id = user_id /\ lb[i].week_start = ws}
    IN  IF hits = {} THEN 0 ELSE CHOOSE i \in hits : \A j \in hits : i <= j

\* upsert_leaderboard_points taking the INSERT branch whether or not a row
\* of the pair exists
upsert_always_inserts(lb, user_id, week_start, delta) ==
    Append(lb, [user_id |-> user_id, week_start |-> week_start, points |-> delta])

\* upsert_leaderboard_points with "SET points = ?" given delta instead of
\* points + delta
upsert_overwrites(lb, user_id, week_start, delta) ==
    LET row == leaderboard_row(lb, user_id, week_start)
    IN  IF row # 0
        THEN [lb EXCEPT ![row].points = delta]
        ELSE Append(lb, [user_id |-> user_id, week_start |-> week_start,
                         points |-> delta])

\* upsert_leaderboard_points with "SET points = ?" given points - delta
upsert_subtracts(lb, user_id, week_start, delta) ==
    LET row == leaderboard_row(lb, user_id, week_start)
    IN  IF row # 0
        THEN [lb EXCEPT ![row].points = lb[row].points - delta]
        ELSE Append(lb, [user_id |-> user_id, week_start |-> week_start,
                         points |-> delta])

upsert_leaderboard_points(lb, user_id, week_start, delta) ==
    LET row == leaderboard_row(lb, user_id, week_start)
    IN  IF row # 0
        THEN [lb EXCEPT ![row].points = lb[row].points + delta]
        ELSE Append(lb, [user_id |-> user_id, week_start |-> week_start,
                         points |-> delta])

\* the points a user holds for a week: every row of the pair counted
points_of(lb, user_id, ws) ==
    LET RECURSIVE sum(_)
        sum(i) == IF i = 0 THEN 0
                  ELSE sum(i - 1) + (IF lb[i].user_id = user_id /\ lb[i].week_start = ws
                                     THEN lb[i].points ELSE 0)
    IN  sum(Len(lb))

\* INSERT OR REPLACE INTO timezones
set_user_tz(tzs, user_id, tz_name) ==
    [u \in DOMAIN tzs \cup {user_id} |-> IF u = user_id THEN tz_name ELSE tzs[u]]

\* INSERT INTO users unless a row of the user exists; rows keep rowid order
ensure_user(us, user_id) ==
    IF user_id \in Range(us) THEN us ELSE Append(us, user_id)

\* the SELECT of completion_exists given yesterday's date
completion_exists_stale(task_id, done_date) ==
    BagIn([task_id |-> task_id, done_date |-> done_date - 1], completions)

\* "SELECT 1 FROM completions WHERE task_id=? AND done_date=?" finds a row
completion_exists(task_id, done_date) ==
    BagIn([task_id |-> task_id, done_date |-> done_date], completions)

\* What the handler or job that ran last did: the handler or the job's kind,
\* the user, task id, task (or job) name and date it worked on, how it ended
\* (its result or the exception that ended it), the users a message reached.
Outcome(op, uid, tid, name, date, res, sent) ==
    [op |-> op, uid |-> uid, tid |-> tid, name |-> name, date |-> date,
     res |-> res, sent |-> sent]

\* the outcome of a step whose reply no property reads
Quiet == Outcome("quiet", 0, 0, "", 0, "ok", {})

(***************************************************************************)
(* Formats of the tasks table.                                             *)
(***************************************************************************)
\* sorted(sel) for a set of integers
RECURSIVE sorted(_)
sorted(S) ==
    IF S = {} THEN << >>
    ELSE LET m == CHOOSE x \in S : \A y \in S : x <= y
         IN  <<m>> \o sorted(S \ {m})

\* str(x) and int(s) for the one-digit numbers the days are
str(x) == <<"0", "1", "2", "3", "4", "5", "6", "7", "8", "9">>[x + 1]

int(s) == CHOOSE x \in 0..9 : str(x) = s

\* ",".join(str(x) for x in sorted(sel)): the csv is kept as the sequence of
\* its fields, which is what split(",") makes of it
days_csv_of(sel) == [i \in 1..Cardinality(sel) |-> str(sorted(sel)[i])]

\* [int(d) for d in days_csv.split(",")]
days_of_csv(days_csv) == {int(d) : d \in Range(days_csv)}

\* mytasks with date.weekday() (Monday = 0) in the place of isoweekday()
scheduled_today_weekday(days, today) == str(today % 7) \in Range(days)

\* mytasks: scheduled_today = str(iso_wd) in days.split(",")
scheduled_today(days, today) == str(isoweekday(today)) \in Range(days)

\* send_task_reminder: str(today.isoweekday()) not in days_csv.split(",")
not_scheduled_today(days_csv, today) == str(isoweekday(today)) \notin Range(days_csv)

\* h, m = map(int, time_str.split(":")), as a minute of the day
minute_of_day(time_str) == time_str[1] * 60 + time_str[2]

\* str.isspace of one character
isspace(c) == c = " "

RECURSIVE lstrip(_)
lstrip(s) == IF s # << >> /\ isspace(Head(s)) THEN lstrip(Tail(s)) ELSE s

RECURSIVE rstrip(_)
rstrip(s) ==
    IF s # << >> /\ isspace(s[Len(s)]) THEN rstrip(SubSeq(s, 1, Len(s) - 1)) ELSE s

\* s.strip()
strip(s) == rstrip(lstrip(s))

\* s.split(sep): the fields between the separators
RECURSIVE split(_, _)
split(s, sep) ==
    LET hits == {i \in 1..Len(s) : s[i] = sep}
    IN  IF hits = {} THEN <<s>>
        ELSE LET i == CHOOSE x \in hits : \A y \in hits : x <= y
             IN  <<SubSeq(s, 1, i - 1)>> \o split(SubSeq(s, i + 1, Len(s)), sep)

\* int(x) of a text: blanks around it, an optional sign, then decimal digits
\* and at least one; ValueError otherwise
int_text(x) ==
    LET t == strip(x)
        signed == t # << >> /\ Head(t) \in {"+", "-"}
        digits == IF signed THEN Tail(t) ELSE t
        RECURSIVE value(_)
        value(ds) == IF ds = << >> THEN 0
                     ELSE 10 * value(SubSeq(ds, 1, Len(ds) - 1)) + int(ds[Len(ds)])
    IN  IF digits = << >> \/ \E i \in DOMAIN digits : digits[i] \notin {str(n) : n \in 0..9}
        THEN [raised |-> TRUE, value |-> 0]
        ELSE [raised |-> FALSE,
              value |-> IF signed /\ Head(t) = "-" THEN 0 - value(digits)
                        ELSE value(digits)]

\* the None of parse_time_str
NoTime == [none |-> TRUE, hour |-> 0, minute |-> 0]

\* parse_time_str returning time(hh, mm) whatever the two numbers are
parse_time_str_unchecked(s) ==
    LET parts == split(strip(s), ":")
    IN  IF Len(parts) # 2 THEN NoTime
        ELSE LET hh == int_text(parts[1])
                 mm == int_text(parts[2])
             IN  IF hh.raised \/ mm.raised THEN NoTime
                 ELSE [none |-> FALSE, hour |-> hh.value, minute |-> mm.value]

\* parse_time_str(s): the time of day, or None when the text does not unpack
\* into two fields, a field is no integer, or a number is out of range
parse_time_str(s) ==
    LET parts == split(strip(s), ":")
    IN  IF Len(parts) # 2 THEN NoTime
        ELSE LET hh == int_text(parts[1])
                 mm == int_text(parts[2])
             IN  IF hh.raised \/ mm.raised THEN NoTime
                 ELSE IF 0 <= hh.value /\ hh.value <= 23 /\ 0 <= mm.value /\ mm.value <= 59
                 THEN [none |-> FALSE, hour |-> hh.value, minute |-> mm.value]
                 ELSE NoTime

\* t.strftime("%H:%M"), kept as its hour and minute fields
strftime(t) == <<t.hour, t.minute>>

\* user_data.get(key, default)
get(user_data, key, default) ==
    IF key \in DOMAIN user_data THEN user_data[key] ELSE default

(***************************************************************************)
(* The job queue: JobQueue.run_daily of python-telegram-bot (the version   *)
(* that provides telegram.ext.Application).  A job fires at wall-clock     *)
(* minute `tod` of zone `tz` on the weekdays `days` (ISO numbers).         *)
(***************************************************************************)
\* run_daily raises IndexError unless every day is an index of
\* _CRON_MAPPING = (sun, mon, tue, wed, thu, fri, sat)
run_daily_raises(days) == \E d \in days : d \notin 0..6

\* the ISO weekdays the cron trigger fires on for run_daily's days
cron_weekdays(days) == {IF d = 0 THEN 7 ELSE d : d \in days}

\* the first fire time of a cron trigger after minute `after`
next_fire(tod, tz, weekdays, after) ==
    LET d0 == after \div MinutesPerDay
        fires == {d * MinutesPerDay + tod - utcoffset(tz) : d \in
                     {x \in (d0 - 1)..(d0 + 8) : isoweekday(x) \in weekdays}}
        later == {t \in fires : t > after}
    IN  CHOOSE t \in later : \A u \in later : t <= u

Job(kind, uid, name, tid, reg, tod, tz, days) ==
    [kind |-> kind, uid |-> uid, name |-> name, tid |-> tid, reg |-> reg,
     tod |-> tod, tz |-> tz, weekdays |-> cron_weekdays(days),
     next |-> next_fire(tod, tz, cron_weekdays(days), now)]

\* shift(t, delta): the time of day moved by delta minutes, zone kept
shift(tod, delta) == (tod + delta) % MinutesPerDay

\* the three jobs schedule_task_jobs registers; none when run_daily raises
\* on the first call
schedule_task_jobs(user_id, name, time_str, days_csv) ==
    LET tz == get_user_tz(user_id)
        days == days_of_csv(days_csv)
        base_local == minute_of_day(time_str)
    IN  IF run_daily_raises(days)
        THEN [raised |-> TRUE, jobs |-> EmptyBag]
        ELSE [raised |-> FALSE,
              jobs |-> SetToBag({
                 Job("task_start", user_id, name, 0, 0, base_local, tz, days),
                 Job("task_early", user_id, name, 0, 0, shift(base_local, -10), tz, days),
                 Job("task_check", user_id, name, 0, 0, shift(base_local, 60), tz, days)})]

\* the ids of the rows "SELECT ... FROM tasks" returns, in rowid order
task_ids == sorted(DOMAIN tasks)

\* schedule_all_user_tasks(app): one daily job per task row, named for the
\* row; the lambda reads uid and tid from the loop's scope when it runs,
\* which then hold the values of the last row
schedule_all_user_tasks ==
    LET ids == task_ids
        lastid == ids[Len(ids)]
        RECURSIVE reg(_)
        reg(i) == IF i = 0 THEN EmptyBag
                  ELSE reg(i - 1) (+) SetToBag({
                         Job("reminder", tasks[lastid].user_id, "", lastid, ids[i],
                             minute_of_day(tasks[ids[i]].time_str), TZ, 0..6)})
    IN  reg(Len(ids))

\* the weekly job main registers: time(0, 1, tzinfo=TZ), days=(0,)
weekly_bonus_job == Job("weekly_bonus", 0, "", 0, 0, 1, TZ, {0})

\* main's loop over the task rows: schedule_task_jobs, an exception logged
restore_task_jobs ==
    LET ids == task_ids
        RECURSIVE reg(_)
        reg(i) == IF i = 0 THEN EmptyBag
                  ELSE LET t == tasks[ids[i]]
                       IN  reg(i - 1) (+)
                           schedule_task_jobs(t.user_id, t.name, t.time_str, t.days).jobs
    IN  reg(Len(ids))

(***************************************************************************)
(* The progress report.                                                    *)
(***************************************************************************)
\* week_dates: the seven dates from week_start on
week_dates(week_start) == [i \in 1..7 |-> week_start + (i - 1)]

\* scheduled_dates = [d for d in week_dates if ...isoweekday() in days]
scheduled_dates(days_csv, week_start) ==
    LET days == days_of_csv(days_csv)
    IN  SelectSeq(week_dates(week_start), LAMBDA d : isoweekday(d) \in days)

(***************************************************************************)
(* Weekly settlement: weekly_bonus_and_summary.                            *)
(***************************************************************************)
\* sched_dates: the dates of the week starting prev_week_start whose
\* weekday is one of the task's days, in order
sched_dates(days_csv, prev_week_start) ==
    LET days == days_of_csv(days_csv)
    IN  SelectSeq([i \in 1..7 |-> prev_week_start + (i - 1)],
                  LAMBDA d : isoweekday(d) \in days)

\* done_dates: {done_date} of the task's completions BETWEEN the week's
\* first and last date
done_dates(tid, week_start, week_end) ==
    {c.done_date : c \in {x \in BagToSet(completions) :
         x.task_id = tid /\ week_start <= x.done_date /\ x.done_date <= week_end}}

\* bonus = 30 if sched_count > 0 and done_count == sched_count else 0
bonus_of(tid, days_csv, prev_week_start) ==
    LET done_count == Cardinality(done_dates(tid, prev_week_start, prev_week_start + 6))
        sched_count == Len(sched_dates(days_csv, prev_week_start))
    IN  IF sched_count > 0 /\ done_count = sched_count THEN 30 ELSE 0

\* the ids of "SELECT id, name, days FROM tasks WHERE user_id=?", in order
tasks_of(uid) == SelectSeq(task_ids, LAMBDA id : tasks[id].user_id = uid)

\* bonus_total of one user
bonus_total(uid, prev_week_start) ==
    LET trows == tasks_of(uid)
        RECURSIVE sum(_)
        sum(i) == IF i = 0 THEN 0
                  ELSE sum(i - 1) + bonus_of(trows[i], tasks[trows[i]].days, prev_week_start)
    IN  sum(Len(trows))

\* the loop over the users: the leaderboard after the first n users
RECURSIVE settled(_, _)
settled(n, prev_week_start) ==
    IF n = 0 THEN leaderboard
    ELSE LET lb == settled(n - 1, prev_week_start)
             uid == users[n]
         IN  IF Len(tasks_of(uid)) = 0 THEN lb
             ELSE IF bonus_total(uid, prev_week_start) # 0
                  THEN upsert_leaderboard_points(lb, uid, prev_week_start,
                                                 bonus_total(uid, prev_week_start))
                  ELSE lb

\* the users the loop composes a summary for
summarised == {uid \in Range(users) : Len(tasks_of(uid)) > 0}

\* line 498 with the date resolved in the bot's zone
weekly_today_resolved == [raised |-> FALSE, date |-> date_in(TZ, now)]

\* line 498, today_for_user(update.effective_user.id): the function has no
\* parameter or global named update, so evaluating the name raises NameError
weekly_today == [raised |-> TRUE, date |-> 0]

\* line 582, the same expression in send_task_reminder
reminder_today == [raised |-> TRUE, date |-> 0]

(***************************************************************************)
(* The state after init_db on a fresh database, before main builds the     *)
(* application.                                                            *)
(***************************************************************************)
\* a user outside the conversation, no user_data, no days keyboard on screen
NoConversation == [state |-> "END", user_data |-> << >>, keyboards |-> 0]

\* the process is first started on a Saturday, 00:00 UTC
Epoch == 5 * MinutesPerDay

Init ==
    /\ users = << >>
    /\ tasks = << >>
    /\ nextTaskId = 1
    /\ completions = EmptyBag
    /\ leaderboard = << >>
    /\ timezones = << >>
    /\ jobs = EmptyBag
    /\ buttons = {}
    /\ inflight = {}
    /\ conv = [u \in UserIds |-> NoConversation]
    /\ up = FALSE
    /\ now = Epoch
    /\ last = Outcome("init_db", 0, 0, "", 0, "ok", {})

(***************************************************************************)
(* Process start and stop.  The job queue lives in memory only.            *)
(***************************************************************************)
\* main: the weekly job, the jobs of every stored task, then post_init
main ==
    /\ ~up
    /\ up' = TRUE
    /\ jobs' = SetToBag({weekly_bonus_job}) (+) restore_task_jobs
                  (+) schedule_all_user_tasks
    /\ last' = Outcome("main", 0, 0, "", 0, "ok", {})
    /\ UNCHANGED <<conv, store, buttons, inflight, now>>

\* the process ends, at any point of a running callback; its jobs, the
\* callbacks that were running, the conversations and user_data are gone; the
\* messages in the chats stay
Stop ==
    /\ up
    /\ up' = FALSE
    /\ jobs' = EmptyBag
    /\ inflight' = {}
    /\ conv' = [u \in DOMAIN conv |->
                  [NoConversation EXCEPT !.keyboards = conv[u].keyboards]]
    /\ last' = Quiet
    /\ UNCHANGED <<store, buttons, now>>

(***************************************************************************)
(* Handlers of user updates.                                               *)
(***************************************************************************)
\* /newtask: ensure_user and the prompt for a name.  newtask_start and
\* newtask_days_done are written over the store and the job queue; the state
\* of the conversation and user_data are threaded through them by
\* conversation_entry and conversation_days_done below
newtask_start(u) ==
    /\ up
    /\ users' = ensure_user(users, u)
    /\ last' = Quiet
    /\ UNCHANGED <<tasks, nextTaskId, completions, leaderboard, timezones,
                   jobs, buttons, inflight, up, now>>

\* the conversation's last step, with the name, time and days the earlier
\* steps left in user_data
newtask_days_done(u, name, time_str, sel) ==
    /\ up
    /\ u \in Range(users)
    /\ IF sel = {}
       THEN /\ last' = Outcome("newtask_days_done", u, 0, name, 0, "ASK_DAYS", {})
            /\ UNCHANGED <<tasks, nextTaskId, jobs>>
       ELSE /\ nextTaskId <= MaxTasks
            /\ LET days_csv == days_csv_of(sel)
                   r == schedule_task_jobs(u, name, time_str, days_csv)
               IN  /\ tasks' = [id \in DOMAIN tasks \cup {nextTaskId} |->
                                  IF id = nextTaskId
                                  THEN [user_id |-> u, name |-> name,
                                        time_str |-> time_str, days |-> days_csv]
                                  ELSE tasks[id]]
                   /\ nextTaskId' = nextTaskId + 1
                   /\ jobs' = jobs (+) r.jobs
                   /\ last' = Outcome("newtask_days_done", u, nextTaskId, name, 0,
                                      IF r.raised THEN "IndexError" ELSE "END", {})
    /\ UNCHANGED <<users, completions, leaderboard, timezones, buttons, inflight, up, now>>

(***************************************************************************)
(* The /newtask conversation as main's ConversationHandler runs it: the    *)
(* entry point is taken in any state (allow_reentry), a text goes to the   *)
(* handler of the user's state, a button of a days keyboard is handled in  *)
(* ASK_DAYS only, and a handler that raises leaves the state as it was.    *)
(* user_data outlives a conversation.                                      *)
(***************************************************************************)
\* /newtask
conversation_entry(u) ==
    /\ newtask_start(u)
    /\ conv' = [conv EXCEPT ![u].state = "ASK_NAME"]

\* a text in ASK_NAME
newtask_name(u, text) ==
    /\ up
    /\ conv[u].state = "ASK_NAME"
    /\ conv' = [conv EXCEPT ![u].state = "ASK_TIME",
                            ![u].user_data = ("task_name" :> strip(text)) @@ @]
    /\ last' = Quiet
    /\ UNCHANGED <<store, jobs, buttons, inflight, up, now>>

\* a text in ASK_TIME; an accepted time sends a message with a days keyboard
newtask_time(u, text) ==
    /\ up
    /\ conv[u].state = "ASK_TIME"
    /\ LET t == parse_time_str(text)
       IN  IF t.none
           THEN /\ conv' = [conv EXCEPT ![u].state = "ASK_TIME"]
                /\ last' = Outcome("newtask_time", u, 0, "", 0, "ASK_TIME", {u})
           ELSE /\ conv[u].keyboards < MaxKeyboards
                /\ conv' = [conv EXCEPT
                      ![u].state = "ASK_DAYS",
                      ![u].user_data = ("task_time" :> strftime(t)) @@
                                       ("task_days" :> {}) @@ @,
                      ![u].keyboards = @ + 1]
                /\ last' = Outcome("newtask_time", u, 0, "", 0, "ASK_DAYS", {u})
    /\ UNCHANGED <<store, jobs, buttons, inflight, up, now>>

\* a press of day button d of a days keyboard, in ASK_DAYS; the handler
\* returns None, which keeps the state
newtask_days_toggle(u, d) ==
    /\ up
    /\ conv[u].state = "ASK_DAYS"
    /\ conv[u].keyboards > 0
    /\ LET sel == get(conv[u].user_data, "task_days", {})
       IN  conv' = [conv EXCEPT ![u].user_data =
                      ("task_days" :> (IF d \in sel THEN sel \ {d} ELSE sel \cup {d}))
                      @@ @]
    /\ last' = Quiet
    /\ UNCHANGED <<store, jobs, buttons, inflight, up, now>>

\* a press of the Done button of a days keyboard, in ASK_DAYS; the handler
\* replaces the message by a text unless schedule_task_jobs raised
conversation_days_done(u) ==
    /\ conv[u].state = "ASK_DAYS"
    /\ conv[u].keyboards > 0
    /\ newtask_days_done(u, conv[u].user_data["task_name"],
                         conv[u].user_data["task_time"],
                         get(conv[u].user_data, "task_days", {}))
    /\ conv' = [conv EXCEPT
          ![u].state = IF last'.res = "END" THEN "END" ELSE "ASK_DAYS",
          ![u].keyboards = IF last'.res = "IndexError" THEN @ ELSE @ - 1]

\* /cancel in a conversation
cancel_conv(u) ==
    /\ up
    /\ conv[u].state # "END"
    /\ conv' = [conv EXCEPT ![u].state = "END"]
    /\ last' = Quiet
    /\ UNCHANGED <<store, jobs, buttons, inflight, up, now>>

\* /mytasks: a Done button for each of the user's tasks that is scheduled
\* today and not done today
mytasks(u) ==
    /\ up
    /\ users' = ensure_user(users, u)
    /\ LET today == today_for_user(u)
           shown == {id \in DOMAIN tasks :
                       /\ tasks[id].user_id = u
                       /\ scheduled_today(tasks[id].days, today)
                       /\ ~completion_exists(id, today)}
       IN  /\ buttons' = buttons \cup {[tid |-> id, uid |-> u] : id \in shown}
           /\ last' = Quiet
    /\ UNCHANGED <<conv, tasks, nextTaskId, completions, leaderboard, timezones,
                   jobs, inflight, up, now>>

\* mark_done_cb refusing a date the task is not scheduled on
mark_done_cb_due_only(b) ==
    /\ up
    /\ b \in buttons
    /\ LET task_id == b.tid
           today == today_for_user(b.uid)
       IN  IF completion_exists(task_id, today)
           THEN /\ last' = Outcome("mark_done_cb", b.uid, task_id, "", today,
                                   "AlreadyMarked", {b.uid})
                /\ UNCHANGED <<completions, leaderboard>>
           ELSE IF task_id \notin DOMAIN tasks
           THEN /\ last' = Outcome("mark_done_cb", b.uid, task_id, "", today,
                                   "TypeError", {})
                /\ UNCHANGED <<completions, leaderboard>>
           ELSE IF isoweekday(today) \notin days_of_csv(tasks[task_id].days)
           THEN /\ last' = Outcome("mark_done_cb", b.uid, task_id, "", today,
                                   "NotScheduled", {b.uid})
                /\ UNCHANGED <<completions, leaderboard>>
           ELSE /\ BagCardinality(completions) < MaxCompletions
                /\ completions' = completions (+)
                      SetToBag({[task_id |-> task_id, done_date |-> today]})
                /\ leaderboard' = upsert_leaderboard_points(leaderboard,
                      tasks[task_id].user_id, iso_week_monday(today), 10)
                /\ last' = Outcome("mark_done_cb", b.uid, task_id, "", today,
                                   "Awarded", {})
    /\ UNCHANGED <<conv, users, tasks, nextTaskId, timezones, jobs, buttons, inflight,
                   up, now>>

\* mark_done_cb committing the INSERT before it looks the task's owner up
mark_done_cb_commits_insert(b) ==
    /\ up
    /\ b \in buttons
    /\ LET task_id == b.tid
           today == today_for_user(b.uid)
       IN  IF completion_exists(task_id, today)
           THEN /\ last' = Outcome("mark_done_cb", b.uid, task_id, "", today,
                                   "AlreadyMarked", {b.uid})
                /\ UNCHANGED <<completions, leaderboard>>
           ELSE /\ BagCardinality(completions) < MaxCompletions
                /\ completions' = completions (+)
                      SetToBag({[task_id |-> task_id, done_date |-> today]})
                /\ IF task_id \notin DOMAIN tasks
                   THEN /\ last' = Outcome("mark_done_cb", b.uid, task_id, "", today,
                                           "TypeError", {})
                        /\ UNCHANGED leaderboard
                   ELSE /\ leaderboard' = upsert_leaderboard_points(leaderboard,
                              tasks[task_id].user_id, iso_week_monday(today), 10)
                        /\ last' = Outcome("mark_done_cb", b.uid, task_id, "", today,
                                           "Awarded", {})
    /\ UNCHANGED <<conv, users, tasks, nextTaskId, timezones, jobs, buttons, inflight, up, now>>

\* a press of a Done button the bot has shown
mark_done_cb(b) ==
    /\ up
    /\ b \in buttons
    /\ LET task_id == b.tid
           today == today_for_user(b.uid)
       IN  IF completion_exists(task_id, today)
           THEN /\ last' = Outcome("mark_done_cb", b.uid, task_id, "", today,
                                   "AlreadyMarked", {b.uid})
                /\ UNCHANGED <<completions, leaderboard>>
           ELSE IF task_id \notin DOMAIN tasks
           THEN \* row is None: TypeError before commit, the INSERT is rolled back
                /\ last' = Outcome("mark_done_cb", b.uid, task_id, "", today,
                                   "TypeError", {})
                /\ UNCHANGED <<completions, leaderboard>>
           ELSE /\ BagCardinality(completions) < MaxCompletions
                /\ completions' = completions (+)
                      SetToBag({[task_id |-> task_id, done_date |-> today]})
                /\ leaderboard' = upsert_leaderboard_points(leaderboard,
                      tasks[task_id].user_id, iso_week_monday(today), 10)
                /\ last' = Outcome("mark_done_cb", b.uid, task_id, "", today,
                                   "Awarded", {})
    /\ UNCHANGED <<conv, users, tasks, nextTaskId, timezones, jobs, buttons, inflight, up, now>>

\* /progress: the report of the current week; it reads the store only
progress(u) ==
    /\ up
    /\ LET week_start == iso_week_monday(today_for_user(u))
       IN  last' = IF \A id \in DOMAIN tasks : tasks[id].user_id # u
                   THEN Outcome("progress", u, 0, "", 0, "no tasks", {u})
                   ELSE Outcome("progress", u, 0, "", week_start, "ok", {u})
    /\ UNCHANGED <<conv, store, jobs, buttons, inflight, up, now>>

(***************************************************************************)
(* mark_done_cb step by step.  The handler is suspended at its awaits:     *)
(* q.answer() before it reads anything, and the edits of the message after *)
(* it has written.  Between the two it runs without suspension, but in two *)
(* transactions: the completion is committed, then                         *)
(* upsert_leaderboard_points opens a connection of its own.                *)
(***************************************************************************)
\* a running callback: the button pressed, the position, and what the
\* handler holds in its locals
Callback(cb, b, pc, owner, date, res) ==
    [cb |-> cb, tid |-> b.tid, uid |-> b.uid, pc |-> pc, owner |-> owner,
     date |-> date, res |-> res]

\* some callback is between its commit and its upsert, where the event loop
\* runs nothing else
InSync == \E c \in inflight : c.pc = "upsert"

\* lines 316-318: the handler starts and awaits q.answer()
mark_done_answer(b) ==
    /\ up
    /\ b \in buttons
    /\ LET free == (1..MaxCallbacks) \ {c.cb : c \in inflight}
       IN  /\ free # {}
           /\ inflight' = inflight \cup
                 {Callback(CHOOSE n \in free : \A k \in free : n <= k,
                           b, "answer", 0, 0, "")}
    /\ last' = Quiet
    /\ UNCHANGED <<conv, store, jobs, buttons, up, now>>

\* lines 319-345: today, the already-marked check, the INSERT, the owner's
\* id, the commit
mark_done_commit(c) ==
    /\ up
    /\ c \in inflight /\ c.pc = "answer"
    /\ LET today == today_for_user(c.uid)
       IN  IF completion_exists(c.tid, today)
           THEN /\ inflight' = (inflight \ {c}) \cup
                      {[c EXCEPT !.pc = "edit", !.date = today, !.res = "AlreadyMarked"]}
                /\ UNCHANGED completions
           ELSE IF c.tid \notin DOMAIN tasks
           THEN \* row is None: TypeError, the handler ends, the INSERT is rolled back
                /\ inflight' = inflight \ {c}
                /\ UNCHANGED completions
           ELSE /\ BagCardinality(completions) < MaxCompletions
                /\ completions' = completions (+)
                      SetToBag({[task_id |-> c.tid, done_date |-> today]})
                /\ inflight' = (inflight \ {c}) \cup
                      {[c EXCEPT !.pc = "upsert", !.date = today,
                                 !.owner = tasks[c.tid].user_id]}
    /\ last' = Quiet
    /\ UNCHANGED <<conv, users, tasks, nextTaskId, leaderboard, timezones, jobs,
                   buttons, up, now>>

\* line 346 with the update dropped while another callback is running
mark_done_upsert_alone(c) ==
    /\ up
    /\ c \in inflight /\ c.pc = "upsert"
    /\ leaderboard' = IF inflight = {c}
                       THEN upsert_leaderboard_points(leaderboard, c.owner,
                                                      iso_week_monday(c.date), 10)
                       ELSE leaderboard
    /\ inflight' = (inflight \ {c}) \cup {[c EXCEPT !.pc = "edit", !.res = "Awarded"]}
    /\ last' = Quiet
    /\ UNCHANGED <<conv, users, tasks, nextTaskId, completions, timezones, jobs,
                   buttons, up, now>>

\* line 346: upsert_leaderboard_points(user_id, iso_week_monday(today), 10),
\* then the handler awaits the edit of the message
mark_done_upsert(c) ==
    /\ up
    /\ c \in inflight /\ c.pc = "upsert"
    /\ leaderboard' = upsert_leaderboard_points(leaderboard, c.owner,
                                                iso_week_monday(c.date), 10)
    /\ inflight' = (inflight \ {c}) \cup {[c EXCEPT !.pc = "edit", !.res = "Awarded"]}
    /\ last' = Quiet
    /\ UNCHANGED <<conv, users, tasks, nextTaskId, completions, timezones, jobs,
                   buttons, up, now>>

\* line 346 when the store raises in upsert_leaderboard_points: its own
\* transaction is not committed and the handler ends with the exception
mark_done_upsert_fails(c) ==
    /\ up
    /\ c \in inflight /\ c.pc = "upsert"
    /\ inflight' = inflight \ {c}
    /\ last' = Quiet
    /\ UNCHANGED <<conv, store, jobs, buttons, up, now>>

\* lines 327-334 and 348: the message is edited and the handler returns
mark_done_edit(c) ==
    /\ up
    /\ c \in inflight /\ c.pc = "edit"
    /\ inflight' = inflight \ {c}
    /\ last' = Quiet
    /\ UNCHANGED <<conv, store, jobs, buttons, up, now>>

\* settimezone_cb moving the user's registered task triggers to the new zone
settimezone_cb_reschedules(u, tz) ==
    /\ up
    /\ timezones' = set_user_tz(timezones, u, tz)
    /\ jobs' = SetToBag({IF j.uid = u /\ j.kind \in {"task_start", "task_early", "task_check"}
                         THEN [j EXCEPT !.tz = tz,
                                        !.next = next_fire(j.tod, tz, j.weekdays, now)]
                         ELSE j : j \in BagToSet(jobs)})
    /\ last' = Quiet
    /\ UNCHANGED <<conv, users, tasks, nextTaskId, completions, leaderboard,
                   buttons, inflight, up, now>>

\* a press of a zone button: set_user_tz, then the message is edited
settimezone_cb(u, tz) ==
    /\ up
    /\ timezones' = set_user_tz(timezones, u, tz)
    /\ last' = Quiet
    /\ UNCHANGED <<conv, users, tasks, nextTaskId, completions, leaderboard,
                   jobs, buttons, inflight, up, now>>

\* delete_task_cb deleting the task's completions with the task
delete_task_cb_cascade(task_id) ==
    /\ up
    /\ task_id \in 1..(nextTaskId - 1)
    /\ tasks' = [id \in DOMAIN tasks \ {task_id} |-> tasks[id]]
    /\ completions' = [c \in {x \in BagToSet(completions) : x.task_id # task_id}
                         |-> completions[c]]
    /\ last' = Quiet
    /\ UNCHANGED <<conv, users, nextTaskId, leaderboard, timezones,
                   jobs, buttons, inflight, up, now>>

\* a press of a delete button: DELETE FROM tasks WHERE id=?
delete_task_cb(task_id) ==
    /\ up
    /\ task_id \in 1..(nextTaskId - 1)
    /\ tasks' = [id \in DOMAIN tasks \ {task_id} |-> tasks[id]]
    /\ last' = Quiet
    /\ UNCHANGED <<conv, users, nextTaskId, completions, leaderboard, timezones,
                   jobs, buttons, inflight, up, now>>

(***************************************************************************)
(* Jobs.  A job runs when the clock stands at its next fire time.          *)
(***************************************************************************)
\* the queue after job j has run: its trigger gives the next fire time
rescheduled(j) ==
    (jobs (-) SetToBag({j})) (+)
    SetToBag({[j EXCEPT !.next = next_fire(j.tod, j.tz, j.weekdays, now)]})

due(j) == up /\ BagIn(j, jobs) /\ j.next = now

\* the lambdas of schedule_task_jobs: ctx.bot.send_message(uid, text); the
\* notifier delivers the message or raises
task_job(j, delivered) ==
    /\ due(j)
    /\ j.kind \in {"task_start", "task_early", "task_check"}
    /\ jobs' = rescheduled(j)
    /\ last' = Outcome(j.kind, j.uid, 0, j.name, date_in(j.tz, now),
                       IF delivered THEN "ok" ELSE "DeliveryError",
                       IF delivered THEN {j.uid} ELSE {})
    /\ UNCHANGED <<conv, store, buttons, inflight, up, now>>

\* send_task_reminder(bot_app, uid, tid), run by a job of
\* schedule_all_user_tasks
send_task_reminder(j, delivered) ==
    /\ due(j)
    /\ j.kind = "reminder"
    /\ jobs' = rescheduled(j)
    /\ IF j.uid \notin Range(users)
       THEN /\ last' = Outcome("reminder", j.uid, j.tid, "", 0, "no user", {})
            /\ UNCHANGED buttons
       ELSE IF j.tid \notin DOMAIN tasks
       THEN /\ last' = Outcome("reminder", j.uid, j.tid, "", 0, "no task", {})
            /\ UNCHANGED buttons
       ELSE IF reminder_today.raised
       THEN /\ last' = Outcome("reminder", j.uid, j.tid, "", 0, "NameError", {})
            /\ UNCHANGED buttons
       ELSE IF not_scheduled_today(tasks[j.tid].days, reminder_today.date)
       THEN /\ last' = Outcome("reminder", j.uid, j.tid, "", reminder_today.date,
                               "not scheduled", {})
            /\ UNCHANGED buttons
       ELSE /\ last' = Outcome("reminder", j.uid, j.tid, tasks[j.tid].name,
                               reminder_today.date,
                               IF delivered THEN "ok" ELSE "DeliveryError",
                               IF delivered THEN {j.uid} ELSE {})
            /\ buttons' = IF delivered
                          THEN buttons \cup {[tid |-> j.tid, uid |-> j.uid]}
                          ELSE buttons
    /\ UNCHANGED <<conv, store, inflight, up, now>>

\* weekly_bonus_and_summary(app); `failed` are the users the notifier
\* raises for, `by` tells what ran it
weekly_bonus_and_summary(failed, by) ==
    /\ IF weekly_today.raised
       THEN /\ last' = Outcome("weekly_bonus", 0, 0, by, 0, "NameError", {})
            /\ UNCHANGED leaderboard
       ELSE LET prev_week_start == iso_week_monday(weekly_today.date - 7)
            IN  /\ leaderboard' = settled(Len(users), prev_week_start)
                /\ last' = Outcome("weekly_bonus", 0, 0, by, prev_week_start, "ok",
                                   summarised \ failed)
    /\ UNCHANGED <<conv, users, tasks, nextTaskId, completions, timezones, buttons,
                   inflight, up, now>>

\* the weekly job main registered runs it
weekly_bonus(j, failed) ==
    /\ due(j)
    /\ j.kind = "weekly_bonus"
    /\ jobs' = rescheduled(j)
    /\ weekly_bonus_and_summary(failed, "job")

\* the coroutine is run once more for the same week, right after a run
weekly_bonus_again(failed) ==
    /\ up
    /\ last.op = "weekly_bonus"
    /\ UNCHANGED jobs
    /\ weekly_bonus_and_summary(failed, "again")

(***************************************************************************)
(* The clock.  Time passes to the next instant at which something can      *)
(* change or is due: a job's fire time, a midnight of one of the zones,    *)
(* the start of a stored task.  No job's fire time is passed over.         *)
(***************************************************************************)
\* the midnights of the zones in use, up to day `days`
midnights(days) ==
    {k * MinutesPerDay - utcoffset(tz) : k \in 1..(days + 1), tz \in {TZ} \cup TzChoices}

\* the instants at which a stored task starts: its time of day, in its
\* owner's zone, on the dates whose weekday is one of its days
start_instants(days) ==
    {x[2] * MinutesPerDay + minute_of_day(tasks[x[1]].time_str)
         - utcoffset(get_user_tz(tasks[x[1]].user_id)) :
       x \in {y \in (DOMAIN tasks) \X (0..(days + 1)) :
                 isoweekday(y[2]) \in days_of_csv(tasks[y[1]].days)}}

Tick(days) ==
    /\ \A j \in BagToSet(jobs) : j.next > now
    /\ LET events == {t \in midnights(days) \cup start_instants(days)
                              \cup {j.next : j \in BagToSet(jobs)} : t > now}
           t == CHOOSE t \in events : \A u \in events : t <= u
       IN  /\ t <= days * MinutesPerDay
           /\ now' = t
    /\ last' = Quiet
    /\ UNCHANGED <<conv, store, jobs, buttons, inflight, up>>

Next ==
    \/ main
    \/ Stop
    \/ \E u \in UserIds : newtask_start(u) /\ UNCHANGED conv
    \/ \E u \in UserIds, i \in TaskInputs : newtask_days_done(u, i[1], i[2], i[3]) /\ UNCHANGED conv
    \/ \E u \in UserIds : mytasks(u)
    \/ \E b \in buttons : mark_done_cb(b)
    \/ \E u \in UserIds, tz \in TzChoices : settimezone_cb(u, tz)
    \/ \E task_id \in 1..MaxTasks : delete_task_cb(task_id)
    \/ \E j \in BagToSet(jobs), delivered \in BOOLEAN : task_job(j, delivered)
    \/ \E j \in BagToSet(jobs), delivered \in BOOLEAN : send_task_reminder(j, delivered)
    \/ \E j \in BagToSet(jobs), failed \in SUBSET UserIds : weekly_bonus(j, failed)
    \/ Tick(MaxDay)

Spec == Init /\ [][Next]_vars

(***************************************************************************)
(* Two weeks of one task, for the weekly settlement: the process stays up, *)
(* the user keeps the default zone, and the settlement can be run again    *)
(* right after a run.                                                      *)
(***************************************************************************)
NextWeeks ==
    \/ main
    \/ \E u \in UserIds : newtask_start(u) /\ UNCHANGED conv
    \/ \E u \in UserIds, i \in TaskInputs : nextTaskId = 1 /\ newtask_days_done(u, i[1], i[2], i[3]) /\ UNCHANGED conv
    \/ \E u \in UserIds : mytasks(u)
    \/ \E b \in buttons : mark_done_cb(b)
    \/ \E j \in BagToSet(jobs) : task_job(j, TRUE)
    \/ \E j \in BagToSet(jobs), failed \in SUBSET UserIds : weekly_bonus(j, failed)
    \/ \E failed \in SUBSET UserIds : weekly_bonus_again(failed)
    \/ Tick(MaxDayWeeks)

SpecWeeks == Init /\ [][NextWeeks]_vars

(***************************************************************************)
(* Done callbacks interleaved at their awaits, among themselves and with   *)
(* the jobs.  Nothing else runs while a callback is between its commit and *)
(* its upsert.                                                             *)
(***************************************************************************)
NextConc ==
    \/ ~InSync /\ main
    \/ ~InSync /\ \E u \in UserIds : newtask_start(u) /\ UNCHANGED conv
    \/ ~InSync /\ \E u \in UserIds, i \in TaskInputs :
          nextTaskId = 1 /\ newtask_days_done(u, i[1], i[2], i[3]) /\ UNCHANGED conv
    \/ ~InSync /\ \E u \in UserIds : mytasks(u)
    \/ ~InSync /\ \E b \in buttons : mark_done_answer(b)
    \/ ~InSync /\ \E c \in inflight : mark_done_commit(c)
    \/ \E c \in inflight : mark_done_upsert(c)
    \/ ~InSync /\ \E c \in inflight : mark_done_edit(c)
    \/ ~InSync /\ \E j \in BagToSet(jobs) : task_job(j, TRUE)
    \/ ~InSync /\ \E j \in BagToSet(jobs) : weekly_bonus(j, {})
    \/ ~InSync /\ Tick(MaxDay)

SpecConc == Init /\ [][NextConc]_vars

(***************************************************************************)
(* The same with failures: the process can end at any point of a callback, *)
(* and the store can raise in upsert_leaderboard_points.                   *)
(***************************************************************************)
NextCrash ==
    \/ NextConc
    \/ Stop
    \/ \E c \in inflight : mark_done_upsert_fails(c)

SpecCrash == Init /\ [][NextCrash]_vars

(***************************************************************************)
(* One task with any selection of days the keyboard offers, for the places *)
(* that decide whether a task is due.                                      *)
(***************************************************************************)
NextDue ==
    \/ main
    \/ \E u \in UserIds : newtask_start(u) /\ UNCHANGED conv
    \/ \E u \in UserIds, sel \in SUBSET (1..7) :
          nextTaskId = 1 /\ newtask_days_done(u, "Nap", <<23, 30>>, sel) /\ UNCHANGED conv
    \/ \E u \in UserIds : mytasks(u)
    \/ \E u \in UserIds : progress(u)
    \/ \E j \in BagToSet(jobs) : task_job(j, TRUE)
    \/ \E j \in BagToSet(jobs) : weekly_bonus(j, {})
    \/ Tick(MaxDay)

SpecDue == Init /\ [][NextDue]_vars

(***************************************************************************)
(* A process started on the database an earlier run left behind: two      *)
(* users, each with one task.  No task is created in this run.             *)
(***************************************************************************)
StoredUsers == <<1, 2>>

StoredTasks ==
    [id \in {1, 2} |->
        IF id = 1
        THEN [user_id |-> 1, name |-> "Nap", time_str |-> <<23, 30>>,
              days |-> days_csv_of({6})]
        ELSE [user_id |-> 2, name |-> "Read", time_str |-> <<0, 5>>,
              days |-> days_csv_of({7})]]

InitStored ==
    /\ users = StoredUsers
    /\ tasks = StoredTasks
    /\ nextTaskId = 3
    /\ completions = EmptyBag
    /\ leaderboard = << >>
    /\ timezones = << >>
    /\ jobs = EmptyBag
    /\ buttons = {}
    /\ inflight = {}
    /\ conv = [u \in UserIds |-> NoConversation]
    /\ up = FALSE
    /\ now = Epoch
    /\ last = Outcome("init_db", 0, 0, "", 0, "ok", {})

NextStored ==
    \/ main
    \/ Stop
    \/ \E u \in Range(StoredUsers) : mytasks(u)
    \/ \E b \in buttons : mark_done_cb(b)
    \/ \E task_id \in DOMAIN StoredTasks : delete_task_cb(task_id)
    \/ \E j \in BagToSet(jobs), delivered \in BOOLEAN : task_job(j, delivered)
    \/ \E j \in BagToSet(jobs), delivered \in BOOLEAN : send_task_reminder(j, delivered)
    \/ \E j \in BagToSet(jobs), failed \in SUBSET Range(StoredUsers) :
          weekly_bonus(j, failed)
    \/ Tick(MaxDay)

SpecStored == InitStored /\ [][NextStored]_vars

(***************************************************************************)
(* The task-creation conversation, step by step, with stops and starts of  *)
(* the process.                                                            *)
(***************************************************************************)
NextConv ==
    \/ main
    \/ Stop
    \/ \E u \in UserIds : conversation_entry(u)
    \/ \E u \in UserIds, text \in NameTexts : newtask_name(u, text)
    \/ \E u \in UserIds, text \in ValidTimeTexts \cup MalformedTimeTexts :
          newtask_time(u, text)
    \/ \E u \in UserIds, d \in DayButtons : newtask_days_toggle(u, d)
    \/ \E u \in UserIds : conversation_days_done(u)
    \/ \E u \in UserIds : cancel_conv(u)

SpecConv == Init /\ [][NextConv]_vars

(***************************************************************************)
(* Properties.                                                             *)
(***************************************************************************)
\* a completion of the task on the date is stored
Marked(tid, date) ==
    \E c \in BagToSet(completions) : c.task_id = tid /\ c.done_date = date

\* C1: marking a task done on a date it is not yet marked for awards: one
\* completion is stored and the owner's total of that week grows by exactly
\* 10; marking it again right after, for the same task and date, answers
\* AlreadyMarked and changes nothing in the store, so both calls together
\* add 10, not 20.
C1_MarkDoneIdempotent ==
    [][ /\ (/\ last'.op = "mark_done_cb"
            /\ last'.tid \in DOMAIN tasks
            /\ ~Marked(last'.tid, last'.date))
           => LET owner == tasks[last'.tid].user_id
                  ws == iso_week_monday(last'.date)
              IN  /\ last'.res = "Awarded"
                  /\ completions' = completions (+)
                        SetToBag({[task_id |-> last'.tid, done_date |-> last'.date]})
                  /\ points_of(leaderboard', owner, ws)
                        = points_of(leaderboard, owner, ws) + 10
        /\ (/\ last.op = "mark_done_cb" /\ last.res = "Awarded"
            /\ last'.op = "mark_done_cb"
            /\ last'.tid = last.tid /\ last'.date = last.date)
           => /\ last'.res = "AlreadyMarked"
              /\ store' = store ]_vars

\* a second press for the same task and date was answered AlreadyMarked
\* when the week's total came from two awarded dates
C1_Witness ==
    /\ last.op = "mark_done_cb" /\ last.res = "AlreadyMarked"
    /\ last.tid \in DOMAIN tasks
    /\ Marked(last.tid, last.date) /\ Marked(last.tid, last.date - 1)
    /\ points_of(leaderboard, tasks[last.tid].user_id, iso_week_monday(last.date)) = 20

settled_week == iso_week_monday(date_in(TZ, now) - 7)

\* the dates of the week starting ws on which the task is due
DueDates(tid, ws) ==
    {d \in ws..(ws + 6) : isoweekday(d) \in days_of_csv(tasks[tid].days)}

\* the dates of the week starting ws on which the task was marked done
DoneDates(tid, ws) == {d \in ws..(ws + 6) : Marked(tid, d)}

\* the task was due in the week and done on exactly the dates it was due
PerfectWeek(tid, ws) ==
    DueDates(tid, ws) # {} /\ DoneDates(tid, ws) = DueDates(tid, ws)

Mondays == {iso_week_monday(d) : d \in 0..((now \div MinutesPerDay) + 1)}

\* C3: for every stored task and week, the perfect-week bonus is 30 exactly
\* when the task was due in the week and the set of dates it was done on
\* equals the set of dates it was due on, and 0 otherwise.
C3_BonusIffPerfect ==
    \A id \in DOMAIN tasks, ws \in Mondays :
        bonus_of(id, tasks[id].days, ws) = (IF PerfectWeek(id, ws) THEN 30 ELSE 0)

\* C4: a run of the weekly settlement adds, for every user, 30 points per
\* task of the user that was perfect in the settled week to the user's
\* total of that week.
C4_SettlementAwards ==
    [][ (last'.op = "weekly_bonus" /\ last'.name = "job")
          => \A u \in Range(users) :
                points_of(leaderboard', u, settled_week)
                  = points_of(leaderboard, u, settled_week)
                    + 30 * Cardinality({id \in DOMAIN tasks :
                              tasks[id].user_id = u /\ PerfectWeek(id, settled_week)}) ]_vars

TaskKinds == {"task_early", "task_start", "task_check"}

\* the registered jobs of one kind that notify the user of the named task
JobsOf(kind, uid, name) ==
    LET js == {j \in BagToSet(jobs) : j.kind = kind /\ j.uid = uid /\ j.name = name}
    IN  [j \in js |-> jobs[j]]

\* the stored tasks of the user that carry the name
Named(uid, name) ==
    {id \in DOMAIN tasks : tasks[id].user_id = uid /\ tasks[id].name = name}

\* C5: no reminder of a task is delivered once the task is deleted: a
\* notification that reaches a user is for a task that is stored.
C5_NoReminderAfterDelete ==
    /\ (last.op \in TaskKinds /\ last.sent # {}) => Named(last.uid, last.name) # {}
    /\ (last.op = "reminder" /\ last.sent # {}) => last.tid \in DOMAIN tasks

\* C6: right after startup the registered task triggers are exactly three
\* for every stored task, one of each kind, and none for anything else.
C6_ThreeTriggersPerTask ==
    last.op = "main" =>
        /\ \A j \in BagToSet(jobs) :
               \/ j.kind = "weekly_bonus"
               \/ j.kind \in TaskKinds /\ Named(j.uid, j.name) # {}
        /\ \A id \in DOMAIN tasks, k \in TaskKinds :
               BagCardinality(JobsOf(k, tasks[id].user_id, tasks[id].name))
                 = Cardinality(Named(tasks[id].user_id, tasks[id].name))

\* C7: a notification of a stored task is delivered only on a date whose
\* weekday is one of the task's days, and once a task is created every one
\* of its days, Sunday (7) included, has triggers of the task firing on it.
C7_FiresOnDueDays ==
    /\ (last.op \in TaskKinds /\ last.sent # {})
          => \A id \in Named(last.uid, last.name) :
                isoweekday(last.date) \in days_of_csv(tasks[id].days)
    /\ (last.op = "newtask_days_done" /\ last.tid \in DOMAIN tasks)
          => \A d \in days_of_csv(tasks[last.tid].days), k \in TaskKinds :
                \E j \in DOMAIN JobsOf(k, last.uid, last.name) : d \in j.weekdays

\* the task starts at minute t: t is the task's time of day in the zone on
\* a date whose weekday is one of the task's days
StartsAt(tsk, tz, t) ==
    /\ (t + utcoffset(tz)) % MinutesPerDay = minute_of_day(tsk.time_str)
    /\ isoweekday((t + utcoffset(tz)) \div MinutesPerDay) \in days_of_csv(tsk.days)

\* C8: when the clock reaches the start of a stored task while the process
\* is up (the owner keeping the default zone), exactly one start
\* notification of the task is due at that instant, restarts before it
\* notwithstanding.
C8_OneNotificationPerOccurrence ==
    [][ (up /\ up' /\ now' # now /\ timezones = << >>)
          => \A id \in DOMAIN tasks :
                StartsAt(tasks[id], TZ, now')
                  => BagCardinality(
                        [j \in {x \in DOMAIN JobsOf("task_start", tasks[id].user_id,
                                                     tasks[id].name) : x.next = now'}
                           |-> jobs[j]]) = 1 ]_vars

\* C9: the pre-alert fires 10 minutes before the start notification of the
\* same task and the follow-up 60 minutes after it.
C9_ReminderOffsets ==
    /\ last.op = "task_early"
          => \E j \in DOMAIN JobsOf("task_start", last.uid, last.name) :
                j.next = now + 10
    /\ last.op = "task_start"
          => \E j \in DOMAIN JobsOf("task_check", last.uid, last.name) :
                j.next = now + 60

\* C11: marking a stored task done on a date whose weekday is not one of the
\* task's days is accepted as on a scheduled date: the completion is stored,
\* the answer is Awarded and the owner's total of that week grows by 10.
C11_OffScheduleAccepted ==
    [][ (/\ last'.op = "mark_done_cb"
         /\ last'.tid \in DOMAIN tasks
         /\ isoweekday(last'.date) \notin days_of_csv(tasks[last'.tid].days)
         /\ ~Marked(last'.tid, last'.date))
          => /\ last'.res = "Awarded"
             /\ BagIn([task_id |-> last'.tid, done_date |-> last'.date], completions')
             /\ BagCardinality(completions') = BagCardinality(completions) + 1
             /\ points_of(leaderboard', tasks[last'.tid].user_id,
                           iso_week_monday(last'.date))
                  = points_of(leaderboard, tasks[last'.tid].user_id,
                              iso_week_monday(last'.date)) + 10 ]_vars

\* a press was awarded for a date the task is not scheduled on
C11_Witness ==
    /\ last.op = "mark_done_cb" /\ last.res = "Awarded"
    /\ last.tid \in DOMAIN tasks
    /\ isoweekday(last.date) \notin days_of_csv(tasks[last.tid].days)

\* C12: deleting a task removes that task's row and nothing else: every
\* other task, every completion and every leaderboard row, those earned
\* through the deleted task included, are as before.
C12_DeleteOnlyTheTask ==
    [][ (DOMAIN tasks' # DOMAIN tasks /\ DOMAIN tasks' \subseteq DOMAIN tasks)
          => /\ Cardinality(DOMAIN tasks \ DOMAIN tasks') = 1
             /\ \A id \in DOMAIN tasks' : tasks'[id] = tasks[id]
             /\ completions' = completions
             /\ leaderboard' = leaderboard
             /\ users' = users /\ timezones' = timezones ]_vars

\* a task with an awarded completion is deleted while another task, with a
\* completion of its own, stays
C12_Witness ==
    /\ \E c \in BagToSet(completions) : c.task_id \notin DOMAIN tasks
    /\ \E c \in BagToSet(completions) : c.task_id \in DOMAIN tasks
    /\ Len(leaderboard) = 2

\* q lists the members of S in ascending order
IsAscendingListOf(q, S) ==
    /\ Range(q) = S
    /\ \A i, j \in DOMAIN q : i < j => q[i] < q[j]

\* the dates the clock has reached, and a week more
Dates == 0..((now \div MinutesPerDay) + 8)

\* C13: for a task stored for the selection sel of weekdays, every place
\* that decides whether the task is due on a date (the Done button of
\* /mytasks, the gate of the reminder, the progress report, the settlement)
\* decides as the reference does: due on D exactly when D's ISO weekday is
\* in sel; and the due dates computed for a week from a Monday are the dates
\* of that week on which the task is due, in ascending order.
C13_DueAgreesWithReference ==
    \A id \in DOMAIN tasks, sel \in SUBSET (1..7) :
        tasks[id].days = days_csv_of(sel)
          => /\ \A D \in Dates :
                   /\ scheduled_today(tasks[id].days, D) <=> isoweekday(D) \in sel
                   /\ ~not_scheduled_today(tasks[id].days, D) <=> isoweekday(D) \in sel
             /\ \A ws \in Mondays :
                   LET ref == {d \in ws..(ws + 6) : isoweekday(d) \in sel}
                   IN  /\ IsAscendingListOf(scheduled_dates(tasks[id].days, ws), ref)
                       /\ IsAscendingListOf(sched_dates(tasks[id].days, ws), ref)

\* the report ran for a task of three or more days, one of them today, whose
\* Done button /mytasks has shown
C13_Witness ==
    /\ last.op = "progress" /\ last.res = "ok"
    /\ \E b \in buttons :
          /\ b.tid \in DOMAIN tasks
          /\ Len(tasks[b.tid].days) >= 3
          /\ isoweekday(today_for_user(b.uid)) \in days_of_csv(tasks[b.tid].days)

\* the completions, counted with multiplicity, of the user's stored tasks on
\* the dates of the week starting ws
Awarded(u, ws) ==
    LET cs == {c \in BagToSet(completions) :
                 /\ c.task_id \in DOMAIN tasks
                 /\ tasks[c.task_id].user_id = u
                 /\ c.done_date \in ws..(ws + 6)}
    IN  BagCardinality([c \in cs |-> completions[c]])

\* the leaderboard rows of the user and week
Rows(lb, u, ws) == {i \in DOMAIN lb : lb[i].user_id = u /\ lb[i].week_start = ws}

\* C14: with Done callbacks and the settlement interleaved at every
\* suspension point, no update of a (user, week) total is lost: whenever no
\* callback is in the middle of its writes, the total is 10 for every
\* awarded completion of that user and week, held in exactly one row.
C14_NoLostUpdate ==
    ~InSync =>
        \A u \in Range(users), ws \in Mondays :
            /\ points_of(leaderboard, u, ws) = 10 * Awarded(u, ws)
            /\ Cardinality(Rows(leaderboard, u, ws)) = (IF Awarded(u, ws) > 0 THEN 1 ELSE 0)

\* two callbacks that ran at the same time were both awarded, for two dates
\* of one week
C14_Witness ==
    \E c1, c2 \in inflight :
        /\ c1.cb # c2.cb
        /\ c1.pc = "edit" /\ c1.res = "Awarded"
        /\ c2.pc = "edit" /\ c2.res = "Awarded"
        /\ iso_week_monday(c1.date) = iso_week_monday(c2.date)

\* C15: a failure of the store or a stop of the process inside mark_done_cb
\* leaves no partial write: apart from the instant between the handler's
\* two writes, every stored completion has its 10 points in the owner's
\* total of the completion's week.
C15_MarkDoneAtomic ==
    ~InSync =>
        \A c \in BagToSet(completions) :
            c.task_id \in DOMAIN tasks =>
                points_of(leaderboard, tasks[c.task_id].user_id,
                          iso_week_monday(c.done_date))
                  >= 10 * Awarded(tasks[c.task_id].user_id, iso_week_monday(c.done_date))

\* C16: when the notifier fails for some users during a settlement run, the
\* run goes on: every user with tasks, those users included, has the bonus
\* of the settled week added, and every other user with tasks is messaged.
C16_SettlementSurvivesFailure ==
    [][ \A j \in BagToSet(jobs), failed \in SUBSET Range(users) :
          (failed # {} /\ weekly_bonus(j, failed))
            => \A u \in Range(users) :
                  (\E id \in DOMAIN tasks : tasks[id].user_id = u)
                    => /\ points_of(leaderboard', u, settled_week)
                            = points_of(leaderboard, u, settled_week)
                              + 30 * Cardinality({id \in DOMAIN tasks :
                                   tasks[id].user_id = u /\ PerfectWeek(id, settled_week)})
                       /\ u \notin failed => u \in last'.sent ]_vars

\* C17: a settlement run attempts one summary for every known user, users
\* with no task and users with nothing due included: each user either
\* receives it or is one the notifier failed for.
C17_SummaryForEveryUser ==
    [][ \A j \in BagToSet(jobs), failed \in SUBSET Range(users) :
          weekly_bonus(j, failed) => Range(users) \subseteq (last'.sent \cup failed) ]_vars

\* C18: while the process is up exactly one weekly settlement trigger is
\* registered, restarts and task creations notwithstanding; it fires on
\* Mondays at 00:01 of the reference zone, and a run it starts settles.
C18_OneWeeklySettlement ==
    /\ up => BagCardinality(
                [j \in {x \in BagToSet(jobs) : x.kind = "weekly_bonus"} |-> jobs[j]]) = 1
    /\ \A j \in BagToSet(jobs) :
          j.kind = "weekly_bonus"
            => /\ isoweekday(date_in(TZ, j.next)) = 1
               /\ (j.next + utcoffset(TZ)) % MinutesPerDay = 1
    /\ last.op = "weekly_bonus" => last.res = "ok"

\* C19: a trigger works with the task id, user and name of the task it was
\* registered for: a reminder registered for a task row carries that row's
\* id and owner, and a notification job names a task of its user.
C19_TriggerBoundToItsTask ==
    \A j \in BagToSet(jobs) :
        /\ j.kind = "reminder"
              => /\ j.tid = j.reg
                 /\ j.uid = StoredTasks[j.reg].user_id
        /\ j.kind \in TaskKinds
              => \E id \in DOMAIN StoredTasks :
                    StoredTasks[id].user_id = j.uid /\ StoredTasks[id].name = j.name

\* no two leaderboard rows are of the same user and week
UniqueRows(lb) ==
    \A i, j \in DOMAIN lb :
        (lb[i].user_id = lb[j].user_id /\ lb[i].week_start = lb[j].week_start) => i = j

\* C20: an awarded press for date D changes one leaderboard row, the one of
\* the task's owner for the week of D: it is created with 10 points when
\* absent and grows by 10 otherwise, all other rows staying as they are; and
\* the leaderboard never holds two rows of one user and week.
C20_AwardTouchesOneRow ==
    [][ /\ (last'.op = "mark_done_cb" /\ last'.res = "Awarded")
           => LET owner == tasks[last'.tid].user_id
                  ws == iso_week_monday(last'.date)
                  hit == Rows(leaderboard, owner, ws)
              IN  IF hit = {}
                  THEN leaderboard' = Append(leaderboard,
                          [user_id |-> owner, week_start |-> ws, points |-> 10])
                  ELSE \E i \in hit :
                          leaderboard' = [leaderboard EXCEPT ![i].points = @ + 10]
        /\ UniqueRows(leaderboard') ]_vars

\* a press was awarded while the leaderboard held a row of another user
C20_Witness ==
    /\ last.op = "mark_done_cb" /\ last.res = "Awarded"
    /\ \E i \in DOMAIN leaderboard : leaderboard[i].user_id # last.uid
    /\ \E i \in DOMAIN leaderboard :
          leaderboard[i].user_id = last.uid /\ leaderboard[i].points = 10

\* C21: a change of a user's time zone writes that user's timezones row and
\* nothing else: the other users' rows, the users, tasks, completions and
\* leaderboard entries and every registered trigger stay as they were; a trigger
\* carries the zone read when it was registered, and it fires at its time of
\* day, on its weekdays, in that zone
C21_TimezoneChangeFrame ==
    [][ /\ \A u \in UserIds, tz \in TIMEZONE_OPTIONS :
              settimezone_cb(u, tz) =>
                  /\ DOMAIN timezones' = DOMAIN timezones \cup {u}
                  /\ timezones'[u] = tz
                  /\ \A v \in DOMAIN timezones \ {u} : timezones'[v] = timezones[v]
                  /\ UNCHANGED <<users, tasks, nextTaskId, completions,
                                 leaderboard, jobs>>
        /\ timezones' # timezones =>
              \E u \in UserIds, tz \in TIMEZONE_OPTIONS : settimezone_cb(u, tz)
        /\ last'.op \in {"main", "newtask_days_done"} =>
              \A j \in BagToSet(jobs') :
                  (j.kind \in TaskKinds /\ ~BagIn(j, jobs)) =>
                      j.tz = get_user_tz(j.uid)
        /\ \A j \in BagToSet(jobs) :
              (due(j) /\ j.kind \in TaskKinds) =>
                  /\ (now + utcoffset(j.tz)) % MinutesPerDay = j.tod
                  /\ isoweekday(date_in(j.tz, now)) \in j.weekdays
      ]_vars

\* a task's start notification went out at the task's time in the default
\* zone although the user has meanwhile chosen another zone
C21_Witness ==
    /\ last.op = "task_start"
    /\ 1 \in DOMAIN timezones
    /\ timezones[1] # TZ
    /\ \E id \in DOMAIN tasks :
          /\ tasks[id].user_id = 1
          /\ (now + utcoffset(TZ)) % MinutesPerDay = minute_of_day(tasks[id].time_str)
          /\ (now + utcoffset(timezones[1])) % MinutesPerDay
                # minute_of_day(tasks[id].time_str)

\* C23: a press of a Done button whose task has been deleted leaves the store
\* as it was: no completion row is written for the task id and no leaderboard
\* entry is created or changed
C23_MarkDoneOfDeletedTask ==
    [][ \A b \in buttons :
            (mark_done_cb(b) /\ b.tid \notin DOMAIN tasks) =>
                /\ UNCHANGED store
                /\ \A d \in 0..MaxDay :
                      CopiesIn([task_id |-> b.tid, done_date |-> d], completions')
                        = CopiesIn([task_id |-> b.tid, done_date |-> d], completions)
      ]_vars

\* the Done button of a deleted task was pressed and the handler failed on the
\* owner lookup; the task has no completion on that date
C23_Witness ==
    /\ last.op = "mark_done_cb"
    /\ last.res = "TypeError"
    /\ last.tid \notin DOMAIN tasks
    /\ ~completion_exists(last.tid, last.date)

\* C24: whatever the step (mark-done, settlement, deletion of a task, change
\* of zone, stop and start of the process), every leaderboard entry stays, for
\* the same user and week, with at least the points it had, and the points of
\* every entry are a positive multiple of 10
C24_LeaderboardMonotone ==
    [][ /\ Len(leaderboard') >= Len(leaderboard)
        /\ \A i \in DOMAIN leaderboard :
              /\ leaderboard'[i].user_id = leaderboard[i].user_id
              /\ leaderboard'[i].week_start = leaderboard[i].week_start
              /\ leaderboard'[i].points >= leaderboard[i].points
        /\ \A i \in DOMAIN leaderboard' :
              /\ leaderboard'[i].points > 0
              /\ leaderboard'[i].points % 10 = 0
      ]_vars

\* a mark-done has just raised an entry that already held points
C24_Witness ==
    /\ last.op = "mark_done_cb"
    /\ last.res = "Awarded"
    /\ \E i \in DOMAIN leaderboard : leaderboard[i].points >= 20

\* C25: for every date d, m = iso_week_monday(d) is a Monday with
\* 0 <= d - m <= 6 and iso_week_monday(m) = m; the window from
\* iso_week_monday(d - 7) to six days later is the Monday-to-Sunday week right
\* before the week of d; and the week a leaderboard entry is filed under is
\* such a Monday
C25_WeekArithmetic ==
    /\ \A d \in Dates :
          LET m == iso_week_monday(d)
              prev_week_start == iso_week_monday(d - 7)
              prev_week_end == prev_week_start + 6
          IN  /\ isoweekday(m) = 1
              /\ 0 <= d - m /\ d - m <= 6
              /\ iso_week_monday(m) = m
              /\ isoweekday(prev_week_start) = 1
              /\ isoweekday(prev_week_end) = 7
              /\ prev_week_end + 1 = m
    /\ \A i \in DOMAIN leaderboard :
          /\ isoweekday(leaderboard[i].week_start) = 1
          /\ iso_week_monday(leaderboard[i].week_start) = leaderboard[i].week_start

\* a task was marked done on a Sunday and the award was filed under the Monday
\* six days before
C25_Witness ==
    /\ last.op = "mark_done_cb"
    /\ last.res = "Awarded"
    /\ isoweekday(last.date) = 7
    /\ \E i \in DOMAIN leaderboard : leaderboard[i].week_start = last.date - 6

\* a stored task has at least one weekday, all of them in 1..7, and a time of
\* day with an hour in 0..23 and a minute in 0..59
ValidTask(t) ==
    /\ days_of_csv(t.days) # {}
    /\ days_of_csv(t.days) \subseteq 1..7
    /\ Len(t.time_str) = 2
    /\ t.time_str[1] \in 0..23
    /\ t.time_str[2] \in 0..59

\* C22: through the task-creation conversation, with re-entry, cancelling,
\* day toggling in any order and restarts of the process, every stored task has
\* a non-empty weekday set and a valid time of day; a malformed time keeps the
\* conversation in ASK_TIME and an empty day selection keeps it in ASK_DAYS,
\* and neither stores a task or registers a trigger
C22_StoredTasksValid ==
    [][ /\ \A id \in DOMAIN tasks' : ValidTask(tasks'[id])
        /\ \A u \in UserIds, text \in MalformedTimeTexts :
              newtask_time(u, text) =>
                  /\ conv'[u].state = "ASK_TIME"
                  /\ UNCHANGED <<tasks, nextTaskId, jobs>>
        /\ \A u \in UserIds :
              (conversation_days_done(u)
                 /\ get(conv[u].user_data, "task_days", {}) = {}) =>
                  /\ conv'[u].state = "ASK_DAYS"
                  /\ UNCHANGED <<tasks, nextTaskId, jobs>>
      ]_vars

\* with a task stored by an earlier conversation, a new conversation has just
\* turned a malformed time down and waits in ASK_TIME
C22_Witness ==
    /\ DOMAIN tasks # {}
    /\ last.op = "newtask_time"
    /\ last.res = "ASK_TIME"
    /\ conv[1].state = "ASK_TIME"

\* C10: the store never holds two completions of one task for one date.
C10_OneCompletionPerDate ==
    \A c \in BagToSet(completions) : CopiesIn(c, completions) = 1

\* a press was answered AlreadyMarked while the task had completions on two
\* dates, the user having changed the zone
C10_Witness ==
    /\ last.op = "mark_done_cb" /\ last.res = "AlreadyMarked"
    /\ BagCardinality(completions) = 2
    /\ timezones # << >>

=============================================================================
